---- MODULE Spec2Model ----
(***************************************************************************)
(* Model of the threshold-wallet core of mpc_eddsa-frost:                  *)
(*   - algo_keygen   (mpc_algo/src/biz_algo/keygen.rs), the two-round DKG  *)
(*   - algo_get_hd_key (frost_algo/src/algo/hd.rs), non-hardened HD        *)
(*     derivation.                                                         *)
(* The Ristretto group is modelled by the additive group Z_Q with          *)
(* generator 1 (a point is written as its multiple of the base point) and  *)
(* the scalar field by Z_Q, Q prime.                                        *)
(***************************************************************************)
EXTENDS Integers, Naturals, Sequences, FiniteSets, TLC

\* ------------------------------------------------------------------ bounds
\* Largest number of keygen participants.
MaxN == 3
\* Number of distinct outcomes of the random number generator per run.
MaxSeed == 2
\* Transport failures, tampered messages and misconfigured callers per run.
MaxFaults == 1

\* ------------------------------------------------- group and field (Z_Q)
\* Order of the scalar field / of the group (curve25519_dalek Scalar).
Q == 7

Scalars == 0 .. (Q - 1)

ScalarAdd(a, b) == (a + b) % Q

ScalarMul(a, b) == (a * b) % Q

ScalarNeg(a) == (Q - (a % Q)) % Q

\* a * b^-1, b # 0
ScalarDiv(a, b) == CHOOSE x \in Scalars : (x * b) % Q = a % Q

\* &constants::RISTRETTO_BASEPOINT_TABLE * &s
BaseMul(s) == s % Q

\* &P * &s
PointMul(P, s) == (P * s) % Q

PointAdd(P, R) == (P + R) % Q

\* Option values: <<>> is None, <<x>> is Some(x).
None == <<>>

Some(x) == <<x>>

\* ------------------------------------------------ random number generator
Seeds == 1 .. MaxSeed

\* The i-th scalar OsRng yields to the caller with id `index` in a run whose
\* entropy has outcome s. The first draw (the secret u_i) is never zero.
RngDraw(s, index, i) ==
    IF i = 1 THEN 1 + ((s + index) % (Q - 1))
    ELSE ((s + 1) * i + s * s + index * (i + 1)) % Q

\* ------------------------------------------------------- party_i (crypto)
\* KeyInitial::new(index, rng): secret u_i, nonce k and their public images.
KeyInitialNew(index, s) ==
    [ index |-> index,
      u_i   |-> RngDraw(s, index, 1),
      k     |-> RngDraw(s, index, 2),
      g_u_i |-> BaseMul(RngDraw(s, index, 1)),
      g_k   |-> BaseMul(RngDraw(s, index, 2)) ]

\* Coefficients a_1 .. a_t of the sharing polynomial, drawn after u_i and k.
PolyCoefficients(s, index, t) == [c \in 1 .. t |-> RngDraw(s, index, 2 + c)]

\* f(x) = u + a_1 x + ... + a_t x^t
RECURSIVE PolyEval(_, _, _)
PolyEval(u, coefs, x) ==
    IF coefs = <<>> THEN u % Q
    ELSE (u + x * PolyEval(Head(coefs), Tail(coefs), x)) % Q

Share(from, to, value) == [from |-> from, to |-> to, value |-> value]

\* Share::zeroize
ZeroShare == Share(0, 0, 0)

\* KeyInitial::generate_shares(numshares, threshold, rng) with the polynomial
\* coefficients coefs: the Feldman commitment of the degree-t polynomial
\* (commitment[1] commits to u_i) and one share per party 1..numshares.
generate_shares(key, numshares, coefs) ==
    [ com    |-> [c \in 1 .. (Len(coefs) + 1) |->
                    IF c = 1 THEN BaseMul(key.u_i) ELSE BaseMul(coefs[c - 1])],
      shares |-> [j \in 1 .. numshares |->
                    Share(key.index, j, PolyEval(key.u_i, coefs, j))] ]

\* Hash-to-scalar of (index, context, g_u_i, g_k).
generate_dkg_challenge(index, ctx, g_u_i, g_k) ==
    (3 * index + 5 * ctx + 2 * g_u_i + g_k + 1) % Q

KeyGenZKP(g_k, sigma) == [g_k |-> g_k, sigma |-> sigma]

KeyGenDKGProposedCommitment(index, com, zkp) ==
    [index |-> index, shares_commitment |-> com, zkp |-> zkp]

KeyGenDKGCommitment(index, com) == [index |-> index, shares_commitment |-> com]

\* KeyGenDKGProposedCommitment::zeroize
ZeroProposed(m) ==
    [ index |-> 0,
      shares_commitment |-> [c \in 1 .. Len(m.shares_commitment) |-> 0],
      zkp |-> KeyGenZKP(0, 0) ]

\* is_valid_zkp: sigma * G == g_k + c * g_u_i
is_valid_zkp(m, ctx) ==
    LET c == generate_dkg_challenge(m.index, ctx, m.shares_commitment[1], m.zkp.g_k)
    IN  BaseMul(m.zkp.sigma) = PointAdd(m.zkp.g_k, PointMul(m.shares_commitment[1], c))

\* KeyInitial::keygen_receive_commitments_and_validate_peers: the declared
\* indices of the messages whose proof fails, and the others promoted to
\* KeyGenDKGCommitment, both in the order received.
RECURSIVE keygen_receive_commitments_and_validate_peers(_, _)
keygen_receive_commitments_and_validate_peers(vec, ctx) ==
    IF vec = <<>> THEN [invalid |-> <<>>, valid |-> <<>>]
    ELSE LET m    == Head(vec)
             rest == keygen_receive_commitments_and_validate_peers(Tail(vec), ctx)
         IN  IF is_valid_zkp(m, ctx)
             THEN [ invalid |-> rest.invalid,
                    valid   |-> <<KeyGenDKGCommitment(m.index, m.shares_commitment)>>
                                  \o rest.valid ]
             ELSE [ invalid |-> <<m.index>> \o rest.invalid,
                    valid   |-> rest.valid ]

\* sum_k commitment[k] * x^(k-1)
RECURSIVE CommitmentEval(_, _)
CommitmentEval(com, x) ==
    IF com = <<>> THEN 0
    ELSE PointAdd(Head(com), PointMul(CommitmentEval(Tail(com), x), x))

\* Share::verify_share against the commitment of its sender.
verify_share(share, coms) ==
    \E c \in 1 .. Len(coms) :
        /\ coms[c].index = share.from
        /\ \A d \in 1 .. (c - 1) : coms[d].index # share.from
        /\ BaseMul(share.value) = CommitmentEval(coms[c].shares_commitment, share.to)

RECURSIVE SumShareValues(_)
SumShareValues(ss) ==
    IF ss = <<>> THEN 0 ELSE ScalarAdd(Head(ss).value, SumShareValues(Tail(ss)))

RECURSIVE SumConstantTerms(_)
SumConstantTerms(coms) ==
    IF coms = <<>> THEN 0
    ELSE PointAdd(Head(coms).shares_commitment[1], SumConstantTerms(Tail(coms)))

\* KeyInitial::keygen_verify_share_construct_keypair: None when a share does
\* not lie on its sender's committed polynomial.
keygen_verify_share_construct_keypair(pshares, coms, index) ==
    IF \A x \in 1 .. Len(pshares) : verify_share(pshares[x], coms)
    THEN Some([ index        |-> index,
                secret       |-> SumShareValues(pshares),
                public       |-> BaseMul(SumShareValues(pshares)),
                group_public |-> SumConstantTerms(coms) ])
    ELSE None

\* ------------------------------------------------------------- aes (AEAD)
aes_encrypt(key, plaintext) == [key |-> key, plaintext |-> plaintext]

\* None on an authentication failure (wrong key or tampered packet).
aes_decrypt(key, pack) == IF pack.key = key THEN Some(pack.plaintext) ELSE None

\* ================================================================== DKG
VARIABLES
    n_members,      \* number of keygen participants of the run
    th,             \* threshold argument of the run
    my_id,          \* my_id[p]: the id caller p passes to algo_keygen
    context,        \* context[p]: the context caller p passes
    rng,            \* outcome of the callers' random number generators in this run
    faults,         \* transport failures, tamperings and misconfigurations so far
    pc,             \* pc[p]: where caller p is inside algo_keygen
    result,         \* result[p]: the Outcome algo_keygen returned to p
    party_key,      \* locals of algo_keygen, per caller
    shares,
    dkg_commitment,
    dkg_com_vec,
    valid_com_vec,
    enc_keys,
    peer_i,         \* loop variable i of the round-2 send loop
    aead_vec,
    party_shares,
    keystore,       \* the KeyStore returned, if any
    bcast,          \* transport: round "dkg_commitment", one slot per sender id
    bcast_seen,     \* transport: the broadcasts as delivered to each caller
    p2p,            \* transport: round "aead_pack_i", one slot per (from, to)
    hd              \* state of the HD derivation calls (see below)

dkgVars == << n_members, th, my_id, context, rng, faults, pc, result, party_key, shares,
              dkg_commitment, dkg_com_vec, valid_com_vec, enc_keys, peer_i,
              aead_vec, party_shares, keystore, bcast, bcast_seen, p2p >>

vars == << n_members, th, my_id, context, rng, faults, pc, result, party_key, shares,
           dkg_commitment, dkg_com_vec, valid_com_vec, enc_keys, peer_i,
           aead_vec, party_shares, keystore, bcast, bcast_seen, p2p, hd >>

Procs == 1 .. n_members

Contexts == {1, 2}

NoResult == [kind |-> "none", exn |-> "", ids |-> <<>>]

Ok == [kind |-> "ok", exn |-> "", ids |-> <<>>]

Err(exn, ids) == [kind |-> "err", exn |-> exn, ids |-> ids]

\* An out-of-bounds index aborts the task.
Panic == [kind |-> "panic", exn |-> "index out of bounds", ids |-> <<>>]

\* ---------------------------------------------------------- mpc_sesman
\* recv_bcast(n, round) returns once the slots 1..n are all filled.
recv_bcast_ready(count) == \A i \in 1 .. count : i \in DOMAIN bcast /\ bcast[i] # None

\* The payloads ordered by sender id.
recv_bcast(count) == [i \in 1 .. count |-> bcast[i][1]]

\* The senders gather_p2p(id, n, round) waits for, in the order returned.
RECURSIVE PeersFrom(_, _, _)
PeersFrom(i, id, n) ==
    IF i > n THEN <<>>
    ELSE IF i = id THEN PeersFrom(i + 1, id, n)
    ELSE <<i>> \o PeersFrom(i + 1, id, n)

gather_p2p_ready(id, n) ==
    \A x \in 1 .. Len(PeersFrom(1, id, n)) : p2p[<<PeersFrom(1, id, n)[x], id>>] # None

gather_p2p(id, n) ==
    [x \in 1 .. Len(PeersFrom(1, id, n)) |-> p2p[<<PeersFrom(1, id, n)[x], id>>][1]]

\* What may happen to the sigma of a broadcast on its way to a caller:
\* nothing (0), or a nonzero scalar is added to it.
TamperDeltas == {1, Q - 1}

\* The ways to alter at most `budget` of `count` broadcasts.
SigmaAlterations(count, budget) ==
    {alt \in [1 .. count -> {0} \cup TamperDeltas] :
        Cardinality({i \in 1 .. count : alt[i] # 0}) <= budget}

\* The broadcasts as delivered under the alteration alt.
DeliverBcast(vec, alt) ==
    [i \in 1 .. Len(vec) |-> [vec[i] EXCEPT !.zkp.sigma = ScalarAdd(@, alt[i])]]

\* What a peer that deviates from the protocol may do with the index its
\* broadcast declares: nothing; "relabel", the index is replaced by another
\* party's id and the proof is left as it was; "redeclare", the peer makes
\* its message, proof included, under another party's id.
NoDeclaration == [kind |-> "none", index |-> 0]

IndexAlterations(count, id, budget) ==
    {decl \in [1 .. count ->
                 {NoDeclaration}
                   \cup [kind : {"relabel", "redeclare"}, index : 1 .. count]] :
        /\ \A i \in 1 .. count :
              decl[i] # NoDeclaration => i # id /\ decl[i].index # i
        /\ Cardinality({i \in 1 .. count : decl[i] # NoDeclaration}) <= budget}

\* The message the peer holding the secrets `key` makes under context ctx
\* when it declares the index d.
Redeclared(m, d, key, ctx) ==
    [m EXCEPT !.index = d,
              !.zkp.sigma = ScalarAdd(key.k,
                              ScalarMul(key.u_i,
                                generate_dkg_challenge(d, ctx, key.g_u_i, key.g_k)))]

\* The broadcasts as delivered under the declarations decl; keys[i] and
\* ctxs[i] are the secrets and the context of the sender in slot i.
DeclareIndex(vec, decl, keys, ctxs) ==
    [i \in 1 .. Len(vec) |->
        IF decl[i].kind = "relabel" THEN [vec[i] EXCEPT !.index = decl[i].index]
        ELSE IF decl[i].kind = "redeclare"
        THEN Redeclared(vec[i], decl[i].index, keys[i], ctxs[i])
        ELSE vec[i]]

\* The secrets and the contexts of the callers, by the id they run as.
SenderKeys(count) ==
    [i \in 1 .. count |->
        IF \E q \in Procs : my_id[q] = i /\ party_key[q] # None
        THEN party_key[CHOOSE q \in Procs : my_id[q] = i /\ party_key[q] # None][1]
        ELSE KeyInitialNew(i, rng)]

SenderContexts(count) ==
    [i \in 1 .. count |->
        IF \E q \in Procs : my_id[q] = i
        THEN context[CHOOSE q \in Procs : my_id[q] = i]
        ELSE 1]

\* What may happen to a round-2 packet on its way: nothing, it is replaced
\* by a packet sealed under another key, or it carries another scalar than
\* the sender's evaluation, sealed under the right key (a sender that
\* deviates from the protocol).
PacketAlterations(count, budget) ==
    {alt \in [1 .. count -> {"none", "key", "share"}] :
        Cardinality({x \in 1 .. count : alt[x] # "none"}) <= budget}

\* The packets as delivered under the alteration alt.
DeliverPackets(packs, alt) ==
    [x \in 1 .. Len(packs) |->
        IF alt[x] = "key" THEN [packs[x] EXCEPT !.key = PointAdd(@, 1)]
        ELSE IF alt[x] = "share" THEN [packs[x] EXCEPT !.plaintext = ScalarAdd(@, 1)]
        ELSE packs[x]]

\* The number of messages an alteration alters.
Altered(alt, unaltered) == Cardinality({x \in DOMAIN alt : alt[x] # unaltered})

\* ------------------------------------------------------------ algo_keygen
\* A check that forgets the lower bound of th.
PreconditionNoLowerBound(id, t, n) == t <= n /\ id \in 1 .. n

\* assert_throw!(1 <= th && th <= n_members);
\* assert_throw!((1..=n_members).contains(&my_id));
Precondition(id, t, n) == 1 <= t /\ t <= n /\ id \in 1 .. n

\* A generation that asks for a polynomial of degree th - 1.
LocalGenerationLowDegree(id, t, n, ctx, s) ==
    LET key       == KeyInitialNew(id, s)
        obj       == generate_shares(key, n, PolyCoefficients(s, id, t - 1))
        challenge == generate_dkg_challenge(id, ctx, key.g_u_i, key.g_k)
        sigma     == ScalarAdd(key.k, ScalarMul(key.u_i, challenge))
    IN  [ party_key      |-> key,
          shares         |-> obj.shares,
          dkg_commitment |-> KeyGenDKGProposedCommitment(
                                 id, obj.com, KeyGenZKP(key.g_k, sigma)) ]

\* Lines 22-52: the party key, the shares and the round-1 message of a call
\* whose random number generator has outcome s.
LocalGeneration(id, t, n, ctx, s) ==
    LET key       == KeyInitialNew(id, s)
        obj       == generate_shares(key, n, PolyCoefficients(s, id, t))
        challenge == generate_dkg_challenge(id, ctx, key.g_u_i, key.g_k)
        sigma     == ScalarAdd(key.k, ScalarMul(key.u_i, challenge))
    IN  [ party_key      |-> key,
          shares         |-> obj.shares,
          dkg_commitment |-> KeyGenDKGProposedCommitment(
                                 id, obj.com, KeyGenZKP(key.g_k, sigma)) ]

\* A call that collects one broadcast more than there are parties.
Round1ExpectedOneMore(n) == n + 1

\* A call that collects one broadcast only.
Round1ExpectedFirstOnly(n) == 1

\* A call that collects the peers' broadcasts only.
Round1ExpectedPeersOnly(n) == n - 1

\* The number of broadcasts recv_bcast is asked to collect (line 60).
Round1Expected(n) == n

\* A check that lets every proof through.
ProofsAcceptedUnchecked(invalid_peer_ids) == TRUE

\* Lines 69-72: assert_throw!(invalid_peer_ids.is_empty(), ...)
ProofsAccepted(invalid_peer_ids) == invalid_peer_ids = <<>>

\* j of the loops at lines 76-82, 88-97 and 105-119 when they reach party i:
\* the number of parties before i other than my_id.
PeerSlot(i, id) == Cardinality({x \in 1 .. (i - 1) : x # id})

\* A loop that leaves after its first send.
NextPeerFirstOnly(i, id, n) ==
    IF i = 0 /\ \E x \in 1 .. n : x # id
    THEN CHOOSE x \in 1 .. n : x # id /\ \A y \in 1 .. (x - 1) : y = id
    ELSE 0

\* The first party after i the round-2 loop sends to; 0 when there is none.
NextPeer(i, id, n) ==
    IF \E x \in (i + 1) .. n : x # id
    THEN CHOOSE x \in (i + 1) .. n : x # id /\ \A y \in (i + 1) .. (x - 1) : y = id
    ELSE 0

\* Lines 75-82: valid_com_vec[i - 1] is in bounds for every i the loop uses.
EncKeysInBounds(coms, id, n) == \A i \in 1 .. n : i # id => i <= Len(coms)

\* Keys built from the caller's own commitment instead of the peer's.
EncKeysFromOwnCommitment(coms, key, id, n) ==
    [x \in 1 .. Len(PeersFrom(1, id, n)) |->
        PointMul(coms[id].shares_commitment[1], key.u_i)]

\* Lines 75-82: one key per party other than my_id, in the order of the ids.
EncKeys(coms, key, id, n) ==
    [x \in 1 .. Len(PeersFrom(1, id, n)) |->
        PointMul(coms[PeersFrom(1, id, n)[x]].shares_commitment[1], key.u_i)]

\* An iteration that uses the plaintext of a packet that fails authentication.
AssembleEntryUnauthenticated(i, id, own, keys, packs) ==
    IF i = id THEN [ok |-> TRUE, exn |-> "", share |-> own[i]]
    ELSE LET j == PeerSlot(i, id) + 1
         IN  IF j > Len(packs) \/ j > Len(keys)
             THEN [ok |-> FALSE, exn |-> "NoneException", share |-> ZeroShare]
             ELSE [ok |-> TRUE, exn |-> "",
                   share |-> Share(i, id, packs[j].plaintext % Q)]

\* Lines 105-119, one iteration: the entry the loop pushes for party i, or
\* the error it returns.
AssembleEntry(i, id, own, keys, packs) ==
    IF i = id THEN [ok |-> TRUE, exn |-> "", share |-> own[i]]
    ELSE LET j == PeerSlot(i, id) + 1
         IN  IF j > Len(packs) \/ j > Len(keys)
             THEN [ok |-> FALSE, exn |-> "NoneException", share |-> ZeroShare]
             ELSE LET out == aes_decrypt(keys[j], packs[j])
                  IN  IF out = None
                      THEN [ok |-> FALSE, exn |-> "AeadException", share |-> ZeroShare]
                      ELSE [ok |-> TRUE, exn |-> "", share |-> Share(i, id, out[1] % Q)]

\* The first party at which the loop of lines 105-119 returns an error; 0
\* when it runs to the end.
AssembleFailsAt(id, n, own, keys, packs) ==
    IF \E i \in 1 .. n : ~AssembleEntry(i, id, own, keys, packs).ok
    THEN CHOOSE i \in 1 .. n :
            /\ ~AssembleEntry(i, id, own, keys, packs).ok
            /\ \A x \in 1 .. (i - 1) : AssembleEntry(x, id, own, keys, packs).ok
    ELSE 0

\* No derivation call is in progress.
HdIdle == [pc |-> "idle"]

\* The callers' arguments: caller p passes my_id = p and context 1, except
\* for at most MaxFaults misconfigurations (a threshold outside 1..n, an id
\* outside 1..n, a context the others do not use).
InitDKG ==
    \E n \in 1 .. MaxN, t \in 0 .. (MaxN + 1) :
      \E ids \in [1 .. n -> 0 .. (n + 1)], cx \in [1 .. n -> Contexts] :
        /\ t <= n + 1
        /\ \A p \in 1 .. n : ids[p] \in {p, 0, n + 1}
        /\ (IF t \in 1 .. n THEN 0 ELSE 1)
             + Cardinality({p \in 1 .. n : ids[p] # p})
             + Cardinality({p \in 1 .. n : cx[p] # 1}) <= MaxFaults
        /\ n_members = n
        /\ th = t
        /\ my_id = ids
        /\ context = cx
        /\ rng \in Seeds
        /\ faults = (IF t \in 1 .. n THEN 0 ELSE 1)
                      + Cardinality({p \in 1 .. n : ids[p] # p})
                      + Cardinality({p \in 1 .. n : cx[p] # 1})
        /\ pc = [p \in 1 .. n |-> "init"]
        /\ result = [p \in 1 .. n |-> NoResult]
        /\ party_key = [p \in 1 .. n |-> None]
        /\ shares = [p \in 1 .. n |-> <<>>]
        /\ dkg_commitment = [p \in 1 .. n |-> None]
        /\ dkg_com_vec = [p \in 1 .. n |-> <<>>]
        /\ valid_com_vec = [p \in 1 .. n |-> <<>>]
        /\ enc_keys = [p \in 1 .. n |-> <<>>]
        /\ peer_i = [p \in 1 .. n |-> 0]
        /\ aead_vec = [p \in 1 .. n |-> <<>>]
        /\ party_shares = [p \in 1 .. n |-> <<>>]
        /\ keystore = [p \in 1 .. n |-> None]
        /\ bcast = [i \in 1 .. n |-> None]
        /\ bcast_seen = [p \in 1 .. n |-> <<>>]
        /\ p2p = [e \in (1 .. n) \X (1 .. n) |-> None]

Init == InitDKG /\ hd = HdIdle

\* Lines 17-18 fail: the call returns before anything else happens.
KeygenPreconditionFails(p) ==
    /\ pc[p] = "init"
    /\ ~Precondition(my_id[p], th, n_members)
    /\ pc' = [pc EXCEPT ![p] = "returned"]
    /\ result' = [result EXCEPT ![p] = Err("AssertionFailed", <<>>)]
    /\ UNCHANGED << bcast_seen, n_members, th, my_id, context, rng, faults, party_key, shares,
                    dkg_commitment, dkg_com_vec, valid_com_vec, enc_keys, peer_i,
                    aead_vec, party_shares, keystore, bcast, bcast_seen, p2p, hd >>

\* Lines 17-58: local generation, then send_bcast succeeds.
KeygenRound1Send(p) ==
    /\ pc[p] = "init"
    /\ Precondition(my_id[p], th, n_members)
    /\ LET g == LocalGeneration(my_id[p], th, n_members, context[p], rng)
       IN  /\ party_key' = [party_key EXCEPT ![p] = Some(g.party_key)]
           /\ shares' = [shares EXCEPT ![p] = g.shares]
           /\ dkg_commitment' = [dkg_commitment EXCEPT ![p] = Some(g.dkg_commitment)]
           /\ bcast' = [bcast EXCEPT ![my_id[p]] = Some(g.dkg_commitment)]
    /\ pc' = [pc EXCEPT ![p] = "round1_recv"]
    /\ UNCHANGED << bcast_seen, n_members, th, my_id, context, rng, faults, result, dkg_com_vec,
                    valid_com_vec, enc_keys, peer_i, aead_vec, party_shares,
                    keystore, p2p, hd >>

\* Lines 17-58: local generation, then send_bcast reports a transport error.
KeygenRound1SendFails(p) ==
    /\ pc[p] = "init"
    /\ Precondition(my_id[p], th, n_members)
    /\ faults < MaxFaults
    /\ LET g == LocalGeneration(my_id[p], th, n_members, context[p], rng)
       IN  /\ party_key' = [party_key EXCEPT ![p] = Some(g.party_key)]
           /\ shares' = [shares EXCEPT ![p] = g.shares]
           /\ dkg_commitment' = [dkg_commitment EXCEPT ![p] = Some(g.dkg_commitment)]
    /\ faults' = faults + 1
    /\ pc' = [pc EXCEPT ![p] = "returned"]
    /\ result' = [result EXCEPT ![p] = Err("TransportFailure", <<>>)]
    /\ UNCHANGED << bcast_seen, n_members, th, my_id, context, rng, dkg_com_vec, valid_com_vec,
                    enc_keys, peer_i, aead_vec, party_shares, keystore, bcast,
                    p2p, hd >>

\* Lines 59-60: recv_bcast reports a transport error.
KeygenRound1RecvFails(p) ==
    /\ pc[p] = "round1_recv"
    /\ faults < MaxFaults
    /\ faults' = faults + 1
    /\ pc' = [pc EXCEPT ![p] = "returned"]
    /\ result' = [result EXCEPT ![p] = Err("TransportFailure", <<>>)]
    /\ UNCHANGED << bcast_seen, n_members, th, my_id, context, rng, party_key, shares,
                    dkg_commitment, dkg_com_vec, valid_com_vec, enc_keys, peer_i,
                    aead_vec, party_shares, keystore, bcast, bcast_seen, p2p, hd >>

\* Lines 59-72: the broadcasts are collected and some proof is invalid.
KeygenRound1Invalid(p) ==
    /\ pc[p] = "round1_recv"
    /\ recv_bcast_ready(Round1Expected(n_members))
    /\ \E alt \in SigmaAlterations(Round1Expected(n_members), MaxFaults - faults) :
       \E decl \in IndexAlterations(Round1Expected(n_members), my_id[p],
                                     MaxFaults - faults - Altered(alt, 0)) :
         LET vec == DeclareIndex(
                        DeliverBcast(recv_bcast(Round1Expected(n_members)), alt),
                        decl, SenderKeys(Round1Expected(n_members)),
                        SenderContexts(Round1Expected(n_members)))
             obj == keygen_receive_commitments_and_validate_peers(vec, context[p])
         IN  /\ ~ProofsAccepted(obj.invalid)
             /\ faults' = faults + Altered(alt, 0) + Altered(decl, NoDeclaration)
             /\ bcast_seen' = [bcast_seen EXCEPT ![p] = vec]
             /\ dkg_com_vec' = [dkg_com_vec EXCEPT ![p] = vec]
             /\ result' = [result EXCEPT ![p] = Err("InvalidZkp", obj.invalid)]
    /\ pc' = [pc EXCEPT ![p] = "returned"]
    /\ UNCHANGED << n_members, th, my_id, context, rng, party_key, shares,
                    dkg_commitment, valid_com_vec, enc_keys, peer_i, aead_vec,
                    party_shares, keystore, bcast, p2p, hd >>

\* Lines 59-82: the broadcasts are collected, every proof is valid, the
\* proposed commitments are zeroized and the per-peer keys are computed.
KeygenRound1Valid(p) ==
    /\ pc[p] = "round1_recv"
    /\ recv_bcast_ready(Round1Expected(n_members))
    /\ \E alt \in SigmaAlterations(Round1Expected(n_members), MaxFaults - faults) :
       \E decl \in IndexAlterations(Round1Expected(n_members), my_id[p],
                                     MaxFaults - faults - Altered(alt, 0)) :
         LET vec == DeclareIndex(
                        DeliverBcast(recv_bcast(Round1Expected(n_members)), alt),
                        decl, SenderKeys(Round1Expected(n_members)),
                        SenderContexts(Round1Expected(n_members)))
             obj == keygen_receive_commitments_and_validate_peers(vec, context[p])
         IN  /\ ProofsAccepted(obj.invalid)
             /\ faults' = faults + Altered(alt, 0) + Altered(decl, NoDeclaration)
             /\ bcast_seen' = [bcast_seen EXCEPT ![p] = vec]
             /\ dkg_com_vec' = [dkg_com_vec EXCEPT
                                  ![p] = [x \in 1 .. Len(vec) |-> ZeroProposed(vec[x])]]
             /\ valid_com_vec' = [valid_com_vec EXCEPT ![p] = obj.valid]
             /\ IF EncKeysInBounds(obj.valid, my_id[p], n_members)
                THEN /\ enc_keys' = [enc_keys EXCEPT ![p] =
                            EncKeys(obj.valid, party_key[p][1], my_id[p], n_members)]
                     /\ peer_i' = [peer_i EXCEPT ![p] = NextPeer(0, my_id[p], n_members)]
                     /\ pc' = [pc EXCEPT ![p] =
                            IF NextPeer(0, my_id[p], n_members) = 0
                            THEN "round2_gather" ELSE "round2_send"]
                     /\ UNCHANGED result
                ELSE /\ pc' = [pc EXCEPT ![p] = "returned"]
                     /\ result' = [result EXCEPT ![p] = Panic]
                     /\ UNCHANGED << enc_keys, peer_i >>
    /\ UNCHANGED << n_members, th, my_id, context, rng, party_key, shares,
                    dkg_commitment, aead_vec, party_shares, keystore, bcast, p2p,
                    hd >>

\* A call that passes the peers' commitments without the caller's own.
SigningKeyPeersOnly(pshares, coms, id) ==
    keygen_verify_share_construct_keypair(
        pshares, SelectSeq(coms, LAMBDA c : c.index # id), id)

\* A construction that sums the shares without verifying them.
SigningKeyUnverified(pshares, coms, id) ==
    Some([ index        |-> id,
           secret       |-> SumShareValues(pshares),
           public       |-> BaseMul(SumShareValues(pshares)),
           group_public |-> SumConstantTerms(coms) ])

\* Lines 121-126: the call that verifies the shares and builds the KeyPair.
SigningKey(pshares, coms, id) ==
    keygen_verify_share_construct_keypair(pshares, coms, id)

\* Line 92: the plaintext for party i is shares[k], k = i - 1 counted from 0.
Round2Plaintext(own, i) == own[i].value

\* Lines 88-97, one iteration: the share for party peer_i is encrypted under
\* that party's key and send_p2p succeeds.
KeygenRound2Send(p) ==
    /\ pc[p] = "round2_send"
    /\ LET i     == peer_i[p]
           key_i == enc_keys[p][PeerSlot(i, my_id[p]) + 1]
           pack  == aes_encrypt(key_i, Round2Plaintext(shares[p], i))
       IN  /\ p2p' = [p2p EXCEPT ![<<my_id[p], i>>] = Some(pack)]
           /\ peer_i' = [peer_i EXCEPT ![p] = NextPeer(i, my_id[p], n_members)]
           /\ pc' = [pc EXCEPT ![p] =
                  IF NextPeer(i, my_id[p], n_members) = 0
                  THEN "round2_gather" ELSE "round2_send"]
    /\ UNCHANGED << bcast_seen, n_members, th, my_id, context, rng, faults, result, party_key,
                    shares, dkg_commitment, dkg_com_vec, valid_com_vec, enc_keys,
                    aead_vec, party_shares, keystore, bcast, hd >>

\* Lines 88-97, one iteration: send_p2p reports a transport error.
KeygenRound2SendFails(p) ==
    /\ pc[p] = "round2_send"
    /\ faults < MaxFaults
    /\ faults' = faults + 1
    /\ pc' = [pc EXCEPT ![p] = "returned"]
    /\ result' = [result EXCEPT ![p] = Err("TransportFailure", <<>>)]
    /\ UNCHANGED << bcast_seen, n_members, th, my_id, context, rng, party_key, shares,
                    dkg_commitment, dkg_com_vec, valid_com_vec, enc_keys, peer_i,
                    aead_vec, party_shares, keystore, bcast, bcast_seen, p2p, hd >>

\* Line 98: gather_p2p reports a transport error.
KeygenRound2GatherFails(p) ==
    /\ pc[p] = "round2_gather"
    /\ faults < MaxFaults
    /\ faults' = faults + 1
    /\ pc' = [pc EXCEPT ![p] = "returned"]
    /\ result' = [result EXCEPT ![p] = Err("TransportFailure", <<>>)]
    /\ UNCHANGED << bcast_seen, n_members, th, my_id, context, rng, party_key, shares,
                    dkg_commitment, dkg_com_vec, valid_com_vec, enc_keys, peer_i,
                    aead_vec, party_shares, keystore, bcast, bcast_seen, p2p, hd >>

\* Lines 98-119: the packets are gathered and the assembly loop returns an
\* error at party f. The entries pushed before f stay in party_shares, and
\* shares has been zeroized only if the loop went past my_id.
KeygenAssembleFails(p) ==
    /\ pc[p] = "round2_gather"
    /\ gather_p2p_ready(my_id[p], n_members)
    /\ \E alt \in PacketAlterations(Len(gather_p2p(my_id[p], n_members)),
                                    MaxFaults - faults) :
         LET packs == DeliverPackets(gather_p2p(my_id[p], n_members), alt)
             f     == AssembleFailsAt(my_id[p], n_members, shares[p], enc_keys[p], packs)
         IN  /\ f # 0
             /\ faults' = faults + Altered(alt, "none")
             /\ aead_vec' = [aead_vec EXCEPT ![p] = packs]
             /\ party_shares' = [party_shares EXCEPT ![p] =
                    [x \in 1 .. (f - 1) |->
                        AssembleEntry(x, my_id[p], shares[p], enc_keys[p], packs).share]]
             /\ shares' = [shares EXCEPT ![p] = IF my_id[p] < f THEN <<>> ELSE @]
             /\ result' = [result EXCEPT ![p] =
                    Err(AssembleEntry(f, my_id[p], shares[p], enc_keys[p], packs).exn,
                        <<>>)]
    /\ pc' = [pc EXCEPT ![p] = "returned"]
    /\ UNCHANGED << bcast_seen, n_members, th, my_id, context, rng, party_key,
                    dkg_commitment, dkg_com_vec, valid_com_vec, enc_keys, peer_i,
                    keystore, bcast, p2p, hd >>

\* Lines 98-126: the shares are assembled and one of them does not match its
\* sender's commitment: the error is returned before line 127.
KeygenShareVerifyFails(p) ==
    /\ pc[p] = "round2_gather"
    /\ gather_p2p_ready(my_id[p], n_members)
    /\ \E alt \in PacketAlterations(Len(gather_p2p(my_id[p], n_members)),
                                    MaxFaults - faults) :
         LET packs == DeliverPackets(gather_p2p(my_id[p], n_members), alt)
             f     == AssembleFailsAt(my_id[p], n_members, shares[p], enc_keys[p], packs)
             ps    == [x \in 1 .. n_members |->
                        AssembleEntry(x, my_id[p], shares[p], enc_keys[p], packs).share]
         IN  /\ f = 0
             /\ SigningKey(ps, valid_com_vec[p], my_id[p]) = None
             /\ faults' = faults + Altered(alt, "none")
             /\ aead_vec' = [aead_vec EXCEPT ![p] = packs]
             /\ party_shares' = [party_shares EXCEPT ![p] = ps]
    /\ shares' = [shares EXCEPT ![p] = <<>>]
    /\ result' = [result EXCEPT ![p] = Err("ShareVerificationFailure", <<>>)]
    /\ pc' = [pc EXCEPT ![p] = "returned"]
    /\ UNCHANGED << bcast_seen, n_members, th, my_id, context, rng, party_key,
                    dkg_commitment, dkg_com_vec, valid_com_vec, enc_keys, peer_i,
                    keystore, bcast, p2p, hd >>

\* Lines 130-137.
KeyStore(key, signing_key, coms, id, t) ==
    [ party_key     |-> key,
      signing_key   |-> signing_key,
      valid_com_vec |-> coms,
      member_id     |-> id,
      th            |-> t ]

\* Lines 98-141: the shares are assembled and verified, party_shares is
\* zeroized and the KeyStore is returned.
KeygenReturns(p) ==
    /\ pc[p] = "round2_gather"
    /\ gather_p2p_ready(my_id[p], n_members)
    /\ \E alt \in PacketAlterations(Len(gather_p2p(my_id[p], n_members)),
                                    MaxFaults - faults) :
         LET packs == DeliverPackets(gather_p2p(my_id[p], n_members), alt)
             f     == AssembleFailsAt(my_id[p], n_members, shares[p], enc_keys[p], packs)
             ps    == [x \in 1 .. n_members |->
                        AssembleEntry(x, my_id[p], shares[p], enc_keys[p], packs).share]
             kp    == SigningKey(ps, valid_com_vec[p], my_id[p])
         IN  /\ f = 0
             /\ kp # None
             /\ faults' = faults + Altered(alt, "none")
             /\ aead_vec' = [aead_vec EXCEPT ![p] = packs]
             /\ party_shares' = [party_shares EXCEPT ![p] =
                                   [x \in 1 .. n_members |-> ZeroShare]]
             /\ keystore' = [keystore EXCEPT ![p] =
                    Some(KeyStore(party_key[p][1], kp[1], valid_com_vec[p], my_id[p], th))]
    /\ shares' = [shares EXCEPT ![p] = <<>>]
    /\ result' = [result EXCEPT ![p] = Ok]
    /\ pc' = [pc EXCEPT ![p] = "returned"]
    /\ UNCHANGED << bcast_seen, n_members, th, my_id, context, rng, party_key,
                    dkg_commitment, dkg_com_vec, valid_com_vec, enc_keys, peer_i,
                    bcast, p2p, hd >>

Next ==
    \/ \E p \in Procs : KeygenPreconditionFails(p)
    \/ \E p \in Procs : KeygenRound1Send(p)
    \/ \E p \in Procs : KeygenRound1SendFails(p)
    \/ \E p \in Procs : KeygenRound1RecvFails(p)
    \/ \E p \in Procs : KeygenRound1Invalid(p)
    \/ \E p \in Procs : KeygenRound1Valid(p)
    \/ \E p \in Procs : KeygenRound2Send(p)
    \/ \E p \in Procs : KeygenRound2SendFails(p)
    \/ \E p \in Procs : KeygenRound2GatherFails(p)
    \/ \E p \in Procs : KeygenAssembleFails(p)
    \/ \E p \in Procs : KeygenShareVerifyFails(p)
    \/ \E p \in Procs : KeygenReturns(p)

Spec == Init /\ [][Next]_vars

\* A step of caller p's call in which the transport does what it is asked
\* to: the send is accepted, or the collection returns the messages.
KeygenStep(p) ==
    /\ p \in Procs
    /\ \/ KeygenPreconditionFails(p)
       \/ KeygenRound1Send(p)
       \/ KeygenRound1Invalid(p)
       \/ KeygenRound1Valid(p)
       \/ KeygenRound2Send(p)
       \/ KeygenAssembleFails(p)
       \/ KeygenShareVerifyFails(p)
       \/ KeygenReturns(p)

\* The calls under a fair scheduler and a transport that delivers: as long
\* as some call can take such a step, one of them is taken.
SpecLive == Init /\ [][Next]_vars /\ WF_vars(\E p \in 1 .. MaxN : KeygenStep(p))

\* =================================================================== HD
\* Longest derivation path of a call.
MaxPathLen == 3

\* ChildNumber: a 31-bit index and the hardened flag (bit 31).
ChildNumber(index, hardened) == [index |-> index, hardened |-> hardened]

is_hardened(ccnum) == ccnum.hardened

ChildNumbers ==
    {ChildNumber(0, FALSE), ChildNumber(1, FALSE), ChildNumber(2, FALSE),
     ChildNumber(0, TRUE), ChildNumber(1, TRUE)}

ChainCodes == {0, 1, 5}

Points == 0 .. (Q - 1)

\* Number of values of a 32-byte half of a digest (more than the group order).
DigestHalf == 16

\* Largest value of the u8 depth counter.
U8_MAX == 255

\* HmacSha512 keyed with key over the bytes of pk followed by those of ccnum:
\* the two halves of the digest (split_at(KEY_SIZE)).
HmacSha512(key, pk, ccnum) ==
    [ tweak      |-> (5 * key + 3 * pk + 7 * ccnum.index + 1) % DigestHalf,
      chain_code |-> (3 * key + pk + 2 * ccnum.index + 2) % DigestHalf ]

\* PublicKey::derive_child(tweak): pk + tweak * G
PublicDeriveChild(pk, tweak) == PointAdd(pk, BaseMul(tweak % Q))

\* PrivateKey::derive_child(tweak): sk + tweak mod the group order
PrivateDeriveChild(sk, tweak) == ScalarAdd(sk, tweak % Q)

\* An HMAC input that also covers the depth of the parent key.
HmacInputWithDepth(st, ccnum) ==
    [key |-> st.chain_code, pk |-> (st.pk + st.depth) % Q, ccnum |-> ccnum]

\* The data the HMAC of one step is computed over (lines 93-95).
HmacInput(st, ccnum) == [key |-> st.chain_code, pk |-> st.pk, ccnum |-> ccnum]

\* A start that seeds the accumulator with zero.
HdStartZeroSeed(par_pk, chain_code) ==
    [ failed      |-> FALSE,
      exn         |-> "",
      pk          |-> par_pk,
      chain_code  |-> chain_code,
      depth       |-> 0,
      total_tweak |-> 0,
      keyed       |-> 0,
      digests     |-> 0 ]

\* The state of the loop before the first index (lines 45-77).
HdStart(par_pk, chain_code) ==
    [ failed      |-> FALSE,
      exn         |-> "",
      pk          |-> par_pk,
      chain_code  |-> chain_code,
      depth       |-> 0,
      total_tweak |-> 1,
      keyed       |-> 0,      \* HMAC instances keyed so far (line 84)
      digests     |-> 0 ]     \* HMAC digests computed so far (line 96)

\* An iteration whose depth counter wraps around instead of failing.
HdStepWrappingDepth(st, ccnum) ==
    IF st.failed THEN st
    ELSE IF is_hardened(ccnum)
    THEN [st EXCEPT !.failed = TRUE, !.exn = "ChildNumber", !.keyed = @ + 1]
    ELSE LET in     == HmacInput(st, ccnum)
             digest == HmacSha512(in.key, in.pk, in.ccnum)
         IN  [ failed      |-> FALSE,
               exn         |-> "",
               pk          |-> PublicDeriveChild(st.pk, digest.tweak),
               chain_code  |-> digest.chain_code,
               depth       |-> (st.depth + 1) % (U8_MAX + 1),
               total_tweak |-> PrivateDeriveChild(st.total_tweak, digest.tweak),
               keyed       |-> st.keyed + 1,
               digests     |-> st.digests + 1 ]

\* One iteration of the loop at lines 78-148.
HdStep(st, ccnum) ==
    IF st.failed THEN st
    ELSE IF st.depth + 1 > U8_MAX
    THEN [st EXCEPT !.failed = TRUE, !.exn = "Depth"]
    ELSE IF is_hardened(ccnum)
    THEN [st EXCEPT !.failed = TRUE, !.exn = "ChildNumber", !.keyed = @ + 1]
    ELSE LET in     == HmacInput(st, ccnum)
             digest == HmacSha512(in.key, in.pk, in.ccnum)
         IN  [ failed      |-> FALSE,
               exn         |-> "",
               pk          |-> PublicDeriveChild(st.pk, digest.tweak),
               chain_code  |-> digest.chain_code,
               depth       |-> st.depth + 1,
               total_tweak |-> PrivateDeriveChild(st.total_tweak, digest.tweak),
               keyed       |-> st.keyed + 1,
               digests     |-> st.digests + 1 ]

\* The loop over the indices of the path, in order, evaluated by halves:
\* the second half starts from the state the first half ends in, and is
\* not entered once the loop has been left with an error.
RECURSIVE HdLoop(_, _)
HdLoop(st, path) ==
    IF path = <<>> THEN st
    ELSE IF Len(path) = 1 THEN HdStep(st, path[1])
    ELSE LET h   == Len(path) \div 2
             mid == HdLoop(st, SubSeq(path, 1, h))
         IN  IF mid.failed THEN mid
             ELSE HdLoop(mid, SubSeq(path, h + 1, Len(path)))

\* A final step that keeps the seed of the accumulator.
FinalTweakKeepsSeed(total_tweak) == total_tweak % Q

\* Line 150: Scalar::from_bytes_mod_order(total_tweak) - Scalar::one()
FinalTweak(total_tweak) == ScalarAdd(total_tweak % Q, ScalarNeg(1))

\* algo_get_hd_key(derive, par_pk, chain_code) for the parsed path: the
\* Outcome, with the chain code and the HMAC counts the call ended with.
algo_get_hd_key(path, par_pk, chain_code) ==
    LET st == HdLoop(HdStart(par_pk, chain_code), path)
    IN  IF st.failed
        THEN [ ok |-> FALSE, exn |-> st.exn, tweak_sk |-> 0, child_pk |-> 0,
               chain_code |-> st.chain_code, keyed |-> st.keyed,
               digests |-> st.digests ]
        ELSE [ ok |-> TRUE, exn |-> "", tweak_sk |-> FinalTweak(st.total_tweak),
               child_pk |-> st.pk, chain_code |-> st.chain_code,
               keyed |-> st.keyed, digests |-> st.digests ]

NoOutcome == [ ok |-> FALSE, exn |-> "not called", tweak_sk |-> 0, child_pk |-> 0,
               chain_code |-> 0, keyed |-> 0, digests |-> 0 ]

Paths == UNION {[1 .. l -> ChildNumbers] : l \in 0 .. MaxPathLen}

\* Paths around the largest depth the counter can hold: one index repeated,
\* without a hardened index, or with one at the given position.
LongPathLens == (U8_MAX - 1) .. (U8_MAX + 2)

LongPath(l, index, hardened_at) ==
    [x \in 1 .. l |-> ChildNumber(index, x = hardened_at)]

LongPaths ==
    {LongPath(l, index, 0) : l \in LongPathLens, index \in {0, 1}}
      \cup {LongPath(l, 0, at) : l \in LongPathLens, at \in {1, U8_MAX + 1}}

\* Where a caller splits a path into two calls.
Splits(path) ==
    IF Len(path) <= MaxPathLen THEN 0 .. Len(path)
    ELSE {0, U8_MAX, Len(path)} \cap (0 .. Len(path))

\* A caller derives `path` from (par_pk, chain_code) in one call, and then
\* again in two calls: the first `split` indices, and the rest from the
\* first call's child key and the chain code reached there.
InitHD ==
    /\ n_members = 0
    /\ th = 0
    /\ my_id = <<>>
    /\ context = <<>>
    /\ rng = 1
    /\ faults = 0
    /\ pc = <<>>
    /\ result = <<>>
    /\ party_key = <<>>
    /\ shares = <<>>
    /\ dkg_commitment = <<>>
    /\ dkg_com_vec = <<>>
    /\ valid_com_vec = <<>>
    /\ enc_keys = <<>>
    /\ peer_i = <<>>
    /\ aead_vec = <<>>
    /\ party_shares = <<>>
    /\ keystore = <<>>
    /\ bcast = <<>>
    /\ bcast_seen = <<>>
    /\ p2p = <<>>
    /\ \E path \in Paths \cup LongPaths, pk \in Points, cc \in ChainCodes :
         \E split \in Splits(path) :
           hd = [ pc         |-> "ready",
                  path       |-> path,
                  split      |-> split,
                  par_pk     |-> pk,
                  chain_code |-> cc,
                  whole      |-> NoOutcome,
                  first      |-> NoOutcome,
                  second     |-> NoOutcome ]

\* The whole path in one call.
HdDeriveWhole ==
    /\ hd.pc = "ready"
    /\ hd' = [hd EXCEPT !.pc = "whole",
                        !.whole = algo_get_hd_key(hd.path, hd.par_pk, hd.chain_code)]
    /\ UNCHANGED dkgVars

\* The first `split` indices in one call.
HdDeriveFirst ==
    /\ hd.pc = "whole"
    /\ hd' = [hd EXCEPT !.pc = "first",
                        !.first = algo_get_hd_key(SubSeq(hd.path, 1, hd.split),
                                                  hd.par_pk, hd.chain_code)]
    /\ UNCHANGED dkgVars

\* The remaining indices, from the output of the first call.
HdDeriveSecond ==
    /\ hd.pc = "first"
    /\ hd.first.ok
    /\ hd' = [hd EXCEPT !.pc = "second",
                        !.second = algo_get_hd_key(
                                       SubSeq(hd.path, hd.split + 1, Len(hd.path)),
                                       hd.first.child_pk, hd.first.chain_code)]
    /\ UNCHANGED dkgVars

NextHD == HdDeriveWhole \/ HdDeriveFirst \/ HdDeriveSecond

SpecHD == InitHD /\ [][NextHD]_vars

\* ============================================================ properties
Holders == {p \in Procs : keystore[p] # None}

AllReturned == \A p \in Procs : pc[p] = "returned"

RECURSIVE SumOfSecrets(_)
SumOfSecrets(S) ==
    IF S = {} THEN 0
    ELSE LET p == CHOOSE x \in S : TRUE
         IN  ScalarAdd(party_key[p][1].u_i, SumOfSecrets(S \ {p}))

\* C1: the joint public keys of all KeyStores returned in a run are
\* identical and equal the sum of all parties' constant-term commitments
\* u_i * G; and when no caller is misconfigured, no message is tampered with
\* and the transport reports no failure, every call that has returned has
\* returned a KeyStore.
C1_JointPublicKeyAgreement ==
    /\ \A p \in Holders :
         /\ \A q \in Procs : party_key[q] # None
         /\ keystore[p][1].signing_key.group_public = BaseMul(SumOfSecrets(Procs))
         /\ \A q \in Holders :
              keystore[q][1].signing_key.group_public
                = keystore[p][1].signing_key.group_public
    /\ faults = 0 =>
         \A p \in Procs :
            pc[p] = "returned" => result[p] = Ok /\ keystore[p] # None

C1_Witness ==
    /\ n_members = 3
    /\ AllReturned
    /\ Holders = Procs
    /\ \E p, q \in Procs : party_key[p][1].u_i # party_key[q][1].u_i

\* Lagrange interpolation at 0 through the points (j, val[j]), j in S.
RECURSIVE LagrangeBasisAtZero(_, _)
LagrangeBasisAtZero(S, j) ==
    IF S = {} THEN 1
    ELSE LET m == CHOOSE x \in S : TRUE
         IN  IF m = j THEN LagrangeBasisAtZero(S \ {m}, j)
             ELSE ScalarMul(ScalarDiv(m, (m - j + Q) % Q),
                            LagrangeBasisAtZero(S \ {m}, j))

RECURSIVE InterpolateAtZero(_, _, _)
InterpolateAtZero(T, S, val) ==
    IF T = {} THEN 0
    ELSE LET j == CHOOSE x \in T : TRUE
         IN  ScalarAdd(ScalarMul(val[j], LagrangeBasisAtZero(S, j)),
                       InterpolateAtZero(T \ {j}, S, val))

\* The aggregated signing share of the party with id j.
SigningShare(j) ==
    LET p == CHOOSE x \in Holders : my_id[x] = j
    IN  keystore[p][1].signing_key.secret

HolderIds == {my_id[p] : p \in Holders}

\* The degree of the sharing polynomials, as the broadcast commitments show.
CommittedDegree ==
    LET p == CHOOSE x \in Holders : TRUE
    IN  Len(keystore[p][1].valid_com_vec[1].shares_commitment) - 1

\* C2: after a successful run every set of at least th + 1 aggregated
\* signing shares interpolates at 0 to the joint secret, the sum of all u_i;
\* and for every set of th or fewer shares every candidate secret is the
\* constant term of some polynomial of the committed degree that passes
\* through those shares.
C2_ThresholdReconstruction ==
    Holders # {} =>
      \A S \in SUBSET HolderIds :
         /\ Cardinality(S) >= th + 1 =>
              InterpolateAtZero(S, S, [j \in S |-> SigningShare(j)])
                = SumOfSecrets(Procs)
         /\ (S # {} /\ Cardinality(S) <= th) =>
              \A cand \in Scalars :
                 \E coefs \in [1 .. CommittedDegree -> Scalars] :
                    \A j \in S : PolyEval(cand, coefs, j) = SigningShare(j)

C2_Witness ==
    /\ n_members = 3
    /\ th = 1
    /\ Holders = Procs
    /\ SumOfSecrets(Procs) # 0
    /\ InterpolateAtZero({1, 3}, {1, 3}, [j \in {1, 3} |-> SigningShare(j)])
         = SumOfSecrets(Procs)
    /\ SigningShare(1) # SumOfSecrets(Procs)

\* Party t's broadcast as delivered to caller p differs from the one party
\* t sent.
BroadcastAltered(p, t) ==
    /\ t <= Len(bcast_seen[p])
    /\ \E q \in Procs :
         /\ my_id[q] = t
         /\ dkg_commitment[q] # None
         /\ bcast_seen[p][t] # dkg_commitment[q][1]

\* Party t's broadcast as delivered to caller p differs from the one party
\* t sent in its sigma, and in nothing else.
SigmaAltered(p, t) ==
    /\ BroadcastAltered(p, t)
    /\ \E q \in Procs :
         /\ my_id[q] = t
         /\ dkg_commitment[q] # None
         /\ bcast_seen[p][t].zkp.sigma # dkg_commitment[q][1].zkp.sigma
         /\ [bcast_seen[p][t] EXCEPT !.zkp.sigma = dkg_commitment[q][1].zkp.sigma]
              = dkg_commitment[q][1]

\* C3: a caller to which the broadcasts were delivered with the sigma of
\* exactly one other party t altered (all callers using the same context)
\* has returned the invalid-proof error listing exactly t, and holds no
\* KeyStore.
C3_AlteredSigmaRejected ==
    \A p \in Procs : \A t \in Procs :
       ( /\ my_id[p] # t
         /\ SigmaAltered(p, t)
         /\ \A i \in Procs \ {t} : ~BroadcastAltered(p, i)
         /\ \A q \in Procs : context[q] = context[p] )
       => ( /\ pc[p] = "returned"
            /\ result[p] = Err("InvalidZkp", <<t>>)
            /\ keystore[p] = None )

C3_Witness ==
    \E p \in Procs : \E t \in Procs :
       /\ n_members = 3
       /\ my_id[p] # t
       /\ SigmaAltered(p, t)
       /\ result[p] = Err("InvalidZkp", <<t>>)
       /\ keystore[p] = None
       /\ \E q \in Procs : pc[q] = "round2_gather"

\* What a caller holding a KeyStore went through.
CompletedEveryStep(p) ==
    /\ result[p] = Ok
    /\ bcast[my_id[p]] # None
    /\ Len(dkg_com_vec[p]) = n_members
    /\ Len(valid_com_vec[p]) = n_members
    /\ \A i \in Procs \ {my_id[p]} : p2p[<<my_id[p], i>>] # None
    /\ Len(aead_vec[p]) = n_members - 1
    /\ Len(enc_keys[p]) = n_members - 1
    /\ \A j \in 1 .. Len(aead_vec[p]) :
         aes_decrypt(enc_keys[p][j], aead_vec[p][j]) # None
    /\ \A x \in 1 .. Len(valid_com_vec[p]) :
         LET i == valid_com_vec[p][x].index
         IN  i # my_id[p] =>
               verify_share(
                 Share(i, my_id[p], aead_vec[p][PeerSlot(i, my_id[p]) + 1].plaintext),
                 valid_com_vec[p])

\* The locals of caller p and its place in algo_keygen.
LocalsOf(p) ==
    << pc[p], result[p], party_key[p], shares[p], dkg_commitment[p],
       dkg_com_vec[p], valid_com_vec[p], enc_keys[p], peer_i[p], aead_vec[p],
       party_shares[p], keystore[p] >>

\* C4: a caller holds a KeyStore only if its round-1 send and collection
\* succeeded, every proof verified, every round-2 send and the collection
\* succeeded, every packet decrypted and every share matched its sender's
\* commitment; a call that returned an error holds no KeyStore, and after a
\* call has returned it takes no further step (no retry).
C4_AllOrNothing ==
    /\ [](\A p \in Procs :
            /\ keystore[p] # None => CompletedEveryStep(p)
            /\ result[p].kind \in {"err", "panic"} =>
                 keystore[p] = None /\ pc[p] = "returned")
    /\ [][ \A p \in Procs :
             pc[p] = "returned" => LocalsOf(p)' = LocalsOf(p) ]_vars

C4_Witness ==
    /\ n_members = 3
    /\ \E p \in Procs : keystore[p] # None /\ CompletedEveryStep(p)
    /\ \E q \in Procs : result[q].kind = "err" /\ result[q].exn = "AeadException"

Zeroized(ss) == \A x \in 1 .. Len(ss) : ss[x] = ZeroShare

ZeroizedProposed(vec) == \A x \in 1 .. Len(vec) : vec[x] = ZeroProposed(vec[x])

\* C5: whenever algo_keygen has returned, with a KeyStore or with an error,
\* shares, party_shares and dkg_com_vec hold no secret material any more.
C5_ZeroizedOnEveryExit ==
    \A p \in Procs :
       pc[p] = "returned" =>
          /\ Zeroized(shares[p])
          /\ Zeroized(party_shares[p])
          /\ ZeroizedProposed(dkg_com_vec[p])

\* The calls of algo_get_hd_key made so far, with their arguments.
HdCalls ==
    (IF hd.pc \in {"whole", "first", "second"}
     THEN {[path |-> hd.path, par_pk |-> hd.par_pk, chain_code |-> hd.chain_code,
            out |-> hd.whole]} ELSE {})
    \cup
    (IF hd.pc \in {"first", "second"}
     THEN {[path |-> SubSeq(hd.path, 1, hd.split), par_pk |-> hd.par_pk,
            chain_code |-> hd.chain_code, out |-> hd.first]} ELSE {})
    \cup
    (IF hd.pc = "second"
     THEN {[path |-> SubSeq(hd.path, hd.split + 1, Len(hd.path)),
            par_pk |-> hd.first.child_pk, chain_code |-> hd.first.chain_code,
            out |-> hd.second]} ELSE {})

\* C6: every successful call returns child_pk = par_pk + tweak_sk * G.
C6_ChildKeyIsParentPlusTweak ==
    \A c \in HdCalls :
       c.out.ok => c.out.child_pk = PointAdd(c.par_pk, BaseMul(c.out.tweak_sk))

C6_Witness ==
    /\ hd.pc = "whole"
    /\ hd.whole.ok
    /\ Len(hd.path) = 3
    /\ hd.whole.tweak_sk # 0
    /\ hd.whole.child_pk # hd.par_pk

\* C7: deriving a path in one call yields the same child_pk as deriving its
\* first part and then the rest from that call's child key and the chain
\* code reached there.
C7_DerivationComposes ==
    (hd.pc = "second" /\ hd.whole.ok /\ hd.second.ok) =>
       hd.second.child_pk = hd.whole.child_pk

C7_Witness ==
    /\ hd.pc = "second"
    /\ Len(hd.path) = 2
    /\ hd.split = 1
    /\ hd.whole.ok
    /\ hd.second.ok
    /\ hd.second.child_pk = hd.whole.child_pk
    /\ hd.first.child_pk # hd.whole.child_pk

HasHardened(path) == \E x \in 1 .. Len(path) : is_hardened(path[x])

\* C8: a call whose path contains a hardened index fails with the
\* child-number error and has computed no HMAC digest.
C8_HardenedFailsBeforeAnyHmac ==
    \A c \in HdCalls :
       HasHardened(c.path) =>
          /\ ~c.out.ok
          /\ c.out.exn = "ChildNumber"
          /\ c.out.digests = 0

\* C9: a call with th = 0, th > n_members, my_id = 0 or my_id > n_members
\* never gets past its first step: it generates no secret, sends nothing and
\* returns the precondition error, never a KeyStore.
C9_PreconditionFailsFirst ==
    \A p \in Procs :
       (th = 0 \/ th > n_members \/ my_id[p] = 0 \/ my_id[p] > n_members) =>
          /\ pc[p] \in {"init", "returned"}
          /\ pc[p] = "returned" => result[p] = Err("AssertionFailed", <<>>)
          /\ party_key[p] = None
          /\ shares[p] = <<>>
          /\ dkg_commitment[p] = None
          /\ keystore[p] = None
          /\ my_id[p] \in Procs =>
               /\ bcast[my_id[p]] = None
               /\ \A i \in Procs : p2p[<<my_id[p], i>>] = None

C9_Witness ==
    /\ \E p \in Procs : th = 0 /\ result[p] = Err("AssertionFailed", <<>>)

\* C10: a caller that has computed a per-peer key, is in round 2 or has sent
\* a round-2 packet has collected the round-1 broadcasts of all n_members
\* parties, all of which have been sent and validated.
C10_Round1Barrier ==
    \A p \in Procs :
       ( \/ enc_keys[p] # <<>>
         \/ pc[p] \in {"round2_send", "round2_gather"}
         \/ (my_id[p] \in Procs /\ \E i \in Procs : p2p[<<my_id[p], i>>] # None) )
       => /\ \A i \in Procs : bcast[i] # None
          /\ Len(dkg_com_vec[p]) = n_members
          /\ Len(valid_com_vec[p]) = n_members

C10_Witness ==
    \E p, q \in Procs :
       /\ my_id[p] \in Procs /\ my_id[q] \in Procs
       /\ p2p[<<my_id[p], my_id[q]>>] # None
       /\ pc[q] = "round1_recv"

\* Caller p has decrypted a packet, assembled shares or built its KeyPair.
AssemblyStarted(p) ==
    \/ aead_vec[p] # <<>>
    \/ party_shares[p] # <<>>
    \/ keystore[p] # None
    \/ result[p].exn \in {"NoneException", "AeadException", "ShareVerificationFailure"}
    \/ result[p] = Ok

\* C11: a caller that has decrypted a peer's packet, assembled its share
\* vector or built its KeyPair has sent its round-2 packet to every other
\* party, and the round-2 packet of every other party for it has been sent;
\* and the step in which it starts doing so is taken from the round-2
\* collection, after the send loop has ended.
C11_Round2Barrier ==
    /\ [](\A p \in Procs :
            AssemblyStarted(p) =>
               \A i \in Procs \ {my_id[p]} :
                  /\ p2p[<<my_id[p], i>>] # None
                  /\ p2p[<<i, my_id[p]>>] # None)
    /\ [][ \A p \in Procs :
             (~AssemblyStarted(p) /\ AssemblyStarted(p)') =>
                /\ pc[p] = "round2_gather"
                /\ peer_i[p] = 0
                /\ gather_p2p_ready(my_id[p], n_members) ]_vars

C11_Witness ==
    \E p, q \in Procs :
       /\ n_members = 3
       /\ keystore[p] # None
       /\ Len(aead_vec[p]) = 2
       /\ pc[q] = "round2_send"

\* The key caller p holds for the party caller q runs as.
KeyFor(p, q) == enc_keys[p][PeerSlot(my_id[q], my_id[p]) + 1]

\* f_p(x): the polynomial caller p drew, evaluated at x.
PolynomialOf(p, x) ==
    PolyEval(RngDraw(rng, my_id[p], 1), PolyCoefficients(rng, my_id[p], th), x)

\* C12: two distinct callers that have both passed round-1 validation hold
\* the same key for each other, u_p * u_q * G, and a round-2 packet one of
\* them has sent to the other decrypts under the receiver's key to the
\* sender's evaluation for the receiver.
C12_PairwiseKeysAgree ==
    \A p \in Procs : \A q \in Procs \ {p} :
       (enc_keys[p] # <<>> /\ enc_keys[q] # <<>>) =>
          /\ KeyFor(p, q) = KeyFor(q, p)
          /\ KeyFor(p, q) = PointMul(BaseMul(party_key[q][1].u_i), party_key[p][1].u_i)
          /\ p2p[<<my_id[p], my_id[q]>>] # None =>
                aes_decrypt(KeyFor(q, p), p2p[<<my_id[p], my_id[q]>>][1])
                  = Some(PolynomialOf(p, my_id[q]))

C12_Witness ==
    \E p \in Procs : \E q \in Procs \ {p} : \E r \in Procs \ {p, q} :
       /\ keystore[q] # None
       /\ p2p[<<my_id[p], my_id[q]>>] # None
       /\ KeyFor(p, q) = KeyFor(q, p)
       /\ KeyFor(p, q) # KeyFor(p, r)
       /\ PolynomialOf(p, my_id[q]) # PolynomialOf(p, my_id[r])

\* The caller that runs as party i.
CallerOf(i) == CHOOSE q \in Procs : my_id[q] = i

\* C13: in the step in which caller p obtains its KeyStore, the share vector
\* assembled from its own evaluations, its keys and the packets gathered has
\* n_members entries; entry i is Share(i, my_id, f_i(my_id)); the caller's
\* own entry is its local evaluation, which was never sent; and every other
\* entry is the plaintext party i sealed for the caller.
C13_AssembledShareVector ==
    [][ \A p \in Procs :
          (keystore[p] = None /\ keystore'[p] # None) =>
             LET id == my_id[p]
                 ps == [i \in 1 .. n_members |->
                          AssembleEntry(i, id, shares[p], enc_keys[p], aead_vec'[p]).share]
             IN  /\ Len(ps) = n_members
                 /\ Len(aead_vec'[p]) = n_members - 1
                 /\ \A i \in 1 .. n_members :
                       /\ \E q \in Procs : my_id[q] = i
                       /\ ps[i] = Share(i, id, PolynomialOf(CallerOf(i), id))
                 /\ ps[id] = shares[p][id]
                 /\ p2p[<<id, id>>] = None
                 /\ \A i \in 1 .. n_members :
                       i # id =>
                          /\ p2p[<<i, id>>] # None
                          /\ ps[i].value = p2p[<<i, id>>][1].plaintext
                          /\ p2p[<<i, id>>][1].plaintext =
                               Round2Plaintext(
                                   LocalGeneration(i, th, n_members,
                                                   context[CallerOf(i)], rng).shares, id)
    ]_vars

C13_Witness ==
    \E p \in Procs :
       /\ n_members = 3
       /\ th = 2
       /\ keystore[p] # None
       /\ my_id[p] = 2
       /\ Len(aead_vec[p]) = 2
       /\ aead_vec[p][1].plaintext = PolynomialOf(CallerOf(1), 2)
       /\ aead_vec[p][2].plaintext = PolynomialOf(CallerOf(3), 2)
       /\ aead_vec[p][1].plaintext # aead_vec[p][2].plaintext
       /\ PolynomialOf(CallerOf(1), 2) # PolynomialOf(CallerOf(1), 3)

\* Caller p was delivered the round-1 message party t produced, unaltered,
\* and validates it under another context than the one t produced it under.
PresentedUnderOtherContext(p, t) ==
    /\ t <= Len(bcast_seen[p])
    /\ \E q \in Procs :
         /\ my_id[q] = t
         /\ dkg_commitment[q] # None
         /\ bcast_seen[p][t] = dkg_commitment[q][1]
         /\ context[q] # context[p]

\* Caller p was delivered the round-1 message party t produced with
\* another declared index, and otherwise unaltered.
PresentedUnderOtherIndex(p, t) ==
    /\ t <= Len(bcast_seen[p])
    /\ \E q \in Procs :
         /\ my_id[q] = t
         /\ dkg_commitment[q] # None
         /\ bcast_seen[p][t].index # t
         /\ [bcast_seen[p][t] EXCEPT !.index = t] = dkg_commitment[q][1]

\* Caller p has returned the invalid-proof error and holds no KeyStore.
RejectedWithoutKeyStore(p) ==
    /\ pc[p] = "returned"
    /\ result[p].kind = "err"
    /\ result[p].exn = "InvalidZkp"
    /\ keystore[p] = None

\* Party t is among the ids the error of caller p lists.
ReportedInvalid(p, t) == \E x \in 1 .. Len(result[p].ids) : result[p].ids[x] = t

\* C14: a caller that was delivered party t's round-1 message and validates
\* it under another context than t's, or that was delivered it with a
\* declared index other than t, has returned the invalid-proof error, holds
\* no KeyStore, and its error lists t.
C14_ProofBoundToIdentityAndContext ==
    \A p \in Procs : \A t \in Procs :
       (PresentedUnderOtherContext(p, t) \/ PresentedUnderOtherIndex(p, t)) =>
          /\ RejectedWithoutKeyStore(p)
          /\ ReportedInvalid(p, t)

\* Caller p has passed round-1 validation.
PassedValidation(p) == valid_com_vec[p] # <<>>

\* C15: the valid_com_vec of a caller that has passed round-1 validation
\* holds no two entries with the same index.
C15_NoDuplicateIndex ==
    \A p \in Procs :
       PassedValidation(p) =>
          \A x \in 1 .. Len(valid_com_vec[p]) : \A y \in 1 .. Len(valid_com_vec[p]) :
             valid_com_vec[p][x].index = valid_com_vec[p][y].index => x = y

\* Caller p is past the validation of round 1: it has reached the loop that
\* computes the per-peer keys.
ReachedEncKeys(p) ==
    my_id[p] \in Procs /\ (PassedValidation(p) \/ result[p] = Panic)

\* C16: when a caller computes its per-peer keys, valid_com_vec has
\* n_members entries, the entry at position i has index i (positions counted
\* from 1), the lookup does not go out of bounds, and the key for party i is
\* party i's constant-term commitment u_i * G times the caller's secret.
C16_PositionalLookup ==
    \A p \in Procs :
       ReachedEncKeys(p) =>
          /\ result[p] # Panic
          /\ Len(valid_com_vec[p]) = n_members
          /\ \A i \in 1 .. n_members : valid_com_vec[p][i].index = i
          /\ Len(enc_keys[p]) = n_members - 1
          /\ \A i \in 1 .. n_members :
                i # my_id[p] =>
                   enc_keys[p][PeerSlot(i, my_id[p]) + 1]
                     = PointMul(BaseMul(RngDraw(rng, i, 1)), party_key[p][1].u_i)

\* The reference accumulator: it starts at zero and adds the first half of
\* the digest of every step, modulo the group order.
ReferenceStep(ref, ccnum) ==
    LET digest == HmacSha512(ref.cc, ref.pk, ccnum)
    IN  [ pk    |-> PublicDeriveChild(ref.pk, digest.tweak),
          cc    |-> digest.chain_code,
          total |-> ScalarAdd(ref.total, digest.tweak % Q) ]

RECURSIVE ReferenceLoop(_, _)
ReferenceLoop(ref, path) ==
    IF path = <<>> THEN ref
    ELSE IF Len(path) = 1 THEN ReferenceStep(ref, path[1])
    ELSE LET h   == Len(path) \div 2
             mid == ReferenceLoop(ref, SubSeq(path, 1, h))
         IN  IF mid.total \in Scalars
             THEN ReferenceLoop(mid, SubSeq(path, h + 1, Len(path)))
             ELSE mid

ReferenceTweak(path, pk, cc) ==
    ReferenceLoop([pk |-> pk, cc |-> cc, total |-> 0], path).total

\* C17: every successful call returns as tweak_sk the sum, modulo the group
\* order, of the first halves of the digests of its steps, as the reference
\* accumulator computes it from zero.
C17_TweakIsSumOfStepTweaks ==
    \A c \in HdCalls :
       c.out.ok => c.out.tweak_sk = ReferenceTweak(c.path, c.par_pk, c.chain_code)

C17_Witness ==
    /\ hd.pc = "whole"
    /\ hd.whole.ok
    /\ Len(hd.path) = 3
    /\ hd.whole.tweak_sk = ReferenceTweak(hd.path, hd.par_pk, hd.chain_code)
    /\ hd.whole.tweak_sk # ReferenceTweak(SubSeq(hd.path, 1, 2), hd.par_pk, hd.chain_code)
    /\ ReferenceTweak(SubSeq(hd.path, 1, 2), hd.par_pk, hd.chain_code)
         # ReferenceTweak(SubSeq(hd.path, 1, 1), hd.par_pk, hd.chain_code)
    /\ hd.whole.tweak_sk = 0

\* The number of indices of a path before its first hardened one.
NonHardenedPrefix(path) ==
    IF HasHardened(path)
    THEN (CHOOSE x \in 1 .. Len(path) :
             is_hardened(path[x]) /\ \A y \in 1 .. (x - 1) : ~is_hardened(path[y])) - 1
    ELSE Len(path)

\* The claim as stated: every call with a path of more than 255 indices
\* fails with the depth error at the 256th index, having completed 255
\* steps; and no call with 255 or fewer non-hardened indices fails with the
\* depth error.
C18_EveryLongPathFailsOnDepth ==
    \A c \in HdCalls :
       /\ Len(c.path) > U8_MAX =>
             /\ ~c.out.ok
             /\ c.out.exn = "Depth"
             /\ c.out.digests = U8_MAX
       /\ (Len(c.path) <= U8_MAX /\ ~HasHardened(c.path)) =>
             c.out.ok /\ c.out.exn # "Depth"

\* C18: every call with a path of more than 255 indices returns no key; it
\* fails with the depth error at the 256th index, having completed 255
\* steps, when its first 255 indices are non-hardened, and with the
\* child-number error at its first hardened index otherwise; and no call
\* with 255 or fewer non-hardened indices fails with the depth error.
C18_DepthOverflow ==
    \A c \in HdCalls :
       /\ Len(c.path) > U8_MAX => ~c.out.ok
       /\ (Len(c.path) > U8_MAX /\ NonHardenedPrefix(c.path) >= U8_MAX) =>
             /\ c.out.exn = "Depth"
             /\ c.out.digests = U8_MAX
       /\ (Len(c.path) > U8_MAX /\ NonHardenedPrefix(c.path) < U8_MAX) =>
             /\ c.out.exn = "ChildNumber"
             /\ c.out.digests = NonHardenedPrefix(c.path)
       /\ (Len(c.path) <= U8_MAX /\ ~HasHardened(c.path)) =>
             c.out.ok /\ c.out.exn # "Depth"

C18_Witness ==
    /\ hd.pc = "second"
    /\ Len(hd.path) = U8_MAX + 2
    /\ ~HasHardened(hd.path)
    /\ hd.split = U8_MAX
    /\ ~hd.whole.ok
    /\ hd.whole.exn = "Depth"
    /\ hd.whole.digests = U8_MAX
    /\ hd.first.ok
    /\ hd.first.digests = U8_MAX

\* Some expected round-1 broadcast has not been sent.
BroadcastMissing == \E i \in Procs : bcast[i] = None

\* recv_bcast returned a transport error to caller p.
TransportFailed(p) ==
    pc[p] = "returned" /\ result[p] = Err("TransportFailure", <<>>)

\* C19: while some round-1 broadcast has not been sent, a caller in the
\* round-1 collection leaves it only with a transport failure; and while
\* it is in the collection it has sent no round-2 packet, holds no KeyStore
\* and has returned nothing. As long as a broadcast is missing, no caller
\* is past the collection, and none has returned anything but the
\* rejection of its arguments or a transport failure.
C19_NoTimeoutInRound1 ==
    /\ [][ \A p \in Procs :
             (pc[p] = "round1_recv" /\ BroadcastMissing /\ pc'[p] # "round1_recv")
                => TransportFailed(p)' ]_vars
    /\ [](\A p \in Procs :
            pc[p] = "round1_recv" =>
               /\ result[p] = NoResult
               /\ keystore[p] = None
               /\ \A i \in Procs : p2p[<<my_id[p], i>>] = None)
    /\ [](BroadcastMissing =>
            \A p \in Procs :
               /\ pc[p] \in {"init", "round1_recv", "returned"}
               /\ keystore[p] = None
               /\ \A i \in Procs : p2p[<<p, i>>] = None
               /\ pc[p] = "returned" =>
                     result[p] \in {Err("AssertionFailed", <<>>),
                                    Err("TransportFailure", <<>>)})

C19_Witness ==
    /\ n_members = 3
    /\ \E i \in Procs :
          /\ pc[i] = "returned"
          /\ bcast[i] = None
          /\ \A p \in Procs \ {i} :
                /\ pc[p] = "round1_recv"
                /\ bcast[p] # None
                /\ result[p] = NoResult

\* Every caller has returned a KeyStore.
AllHoldKeyStores ==
    \A p \in Procs :
       pc[p] = "returned" /\ result[p] = Ok /\ keystore[p] # None

\* C20: a caller that waits for the round-1 broadcasts has sent its own,
\* and a caller that waits for the round-2 packets has sent one to every
\* other party; and, under fair scheduling, a run in which nothing is
\* misconfigured, fails in the transport or is altered (faults stays 0)
\* reaches the state in which every caller has returned a KeyStore.
C20_DeadlockFree ==
    /\ [](\A p \in Procs :
            /\ pc[p] = "round1_recv" => bcast[my_id[p]] # None
            /\ pc[p] = "round2_gather" =>
                  \A i \in Procs \ {my_id[p]} : p2p[<<my_id[p], i>>] # None)
    /\ <>(faults # 0 \/ AllHoldKeyStores)

C20_Witness ==
    /\ n_members = 3
    /\ th = 2
    /\ faults = 0
    /\ AllHoldKeyStores
    /\ \A p \in Procs : bcast[p] # None
    /\ \A p \in Procs : \A i \in Procs \ {p} : p2p[<<p, i>>] # None

====
